---- MODULE Spec2Model ----
(***************************************************************************)
(* A model of src/main.rs: the GPU context (Context), the interface render *)
(* pass (InterfacePass), the Application that owns it, and the closure     *)
(* handed to event_loop.run that dispatches the window system's events.    *)
(*                                                                         *)
(* The window system is the environment: it delivers the events of one     *)
(* loop iteration in the order window events, MainEventsCleared,           *)
(* RedrawRequested, RedrawEventsCleared, looks at the control signal at    *)
(* the end of the iteration, and delivers LoopDestroyed before it stops.   *)
(***************************************************************************)
EXTENDS Integers, Sequences, FiniteSets, TLC

\* ------------------------------------------------------------------ bounds
\* Largest width / height the window system reports (0 is a minimised window).
MaxDim == 1
\* Largest number of render calls followed.
MaxFrames == 2

VARIABLES
    \* Context (main.rs 8-17)
    size, sc_desc, swap_chain,
    \* InterfacePass (main.rs 77-84) and the uniform buffer built in new()
    camera, uniforms, vertices, indices,
    \* what the GPU collaborator has been asked to do
    render_calls, buffers_created, vertex_buffer_len, index_buffer_len,
    frames_acquired, passes_begun, draw_calls, queue, panicked,
    \* the event loop
    control_flow, handler_cf, phase, redraw_requested,
    \* history of the run, read by the properties only
    initial_size, lastResize, lastEventSize, lastEvent, input_result,
    dispatched, exitSeen, workAfterExit, iterAfterExit

ctxVars == <<size, sc_desc, swap_chain>>
passVars == <<camera, uniforms, vertices, indices>>
gpuVars == <<render_calls, buffers_created, vertex_buffer_len, index_buffer_len,
             frames_acquired, passes_begun, draw_calls, queue, panicked>>
loopVars == <<control_flow, handler_cf, phase, redraw_requested>>
histVars == <<initial_size, lastResize, lastEventSize, lastEvent, input_result,
              dispatched, exitSeen, workAfterExit, iterAfterExit>>
vars == <<ctxVars, passVars, gpuVars, loopVars, histVars>>

\* ------------------------------------------------------------ value spaces
Dims == 0..MaxDim
\* winit::dpi::PhysicalSize<u32>
Sizes == [width : Dims, height : Dims]
NoSize == [width |-> 0, height |-> 0]

\* window.id() and the id of any other window
WindowId == "app"
WindowIds == {"app", "other"}

\* WindowEvent values; the fields a variant does not carry hold a filler.
WE(kind, state, key, sz) == [kind |-> kind, state |-> state, key |-> key, size |-> sz]
WindowEvents ==
    {WE("CloseRequested", "-", "-", NoSize), WE("Focused", "-", "-", NoSize)}
    \cup {WE("KeyboardInput", s, k, NoSize) :
              s \in {"Pressed", "Released"}, k \in {"Escape", "A", "None"}}
    \cup {WE("Resized", "-", "-", s) : s \in Sizes}
    \cup {WE("ScaleFactorChanged", "-", "-", s) : s \in Sizes}

\* Event values
WindowEv(wid, we) == [type |-> "WindowEvent", window_id |-> wid, event |-> we]
PlainEv(type) == [type |-> type, window_id |-> "-", event |-> WE("-", "-", "-", NoSize)]
NoEvent == PlainEv("None")

\* ------------------------------------------------- InterfaceVertex (86-129)
\* The fields of the #[repr(C)] record, in declaration order.
InterfaceVertex ==
    << [name |-> "pos",   elem |-> "f32", count |-> 2],
       [name |-> "color", elem |-> "f32", count |-> 4],
       [name |-> "uv",    elem |-> "f32", count |-> 2],
       [name |-> "index", elem |-> "u32", count |-> 1] >>

\* Size and alignment in bytes of the scalar types the record uses.
ElemSize(t) == CASE t = "f32" -> 4 [] t = "u32" -> 4
ElemAlign(t) == CASE t = "f32" -> 4 [] t = "u32" -> 4

AlignUp(n, a) == ((n + a - 1) \div a) * a
FieldSize(f) == ElemSize(f.elem) * f.count

\* repr(C) layout: each field at the next offset aligned for its type.
RECURSIVE FieldOffset(_, _)
FieldOffset(fields, i) ==
    IF i = 1 THEN 0
    ELSE AlignUp(FieldOffset(fields, i - 1) + FieldSize(fields[i - 1]),
                 ElemAlign(fields[i].elem))

RECURSIVE MaxAlign(_, _)
MaxAlign(fields, i) ==
    IF i = 0 THEN 1
    ELSE LET a == ElemAlign(fields[i].elem)
             m == MaxAlign(fields, i - 1)
         IN IF a > m THEN a ELSE m

\* std::mem::size_of of a repr(C) record.
SizeOf(fields) ==
    LET n == Len(fields)
    IN AlignUp(FieldOffset(fields, n) + FieldSize(fields[n]), MaxAlign(fields, n))

\* Bytes one attribute of a wgpu::VertexFormat reads.
VertexFormatSize(fmt) ==
    CASE fmt = "Float2" -> 8 [] fmt = "Float4" -> 16 [] fmt = "Uint" -> 4

\* A variant of desc whose UV attribute is declared at a wrong offset.
desc_uv_misplaced ==
    [stride |-> SizeOf(InterfaceVertex),
     step_mode |-> "Vertex",
     attributes |->
        << [offset |-> 0,  shader_location |-> 0, format |-> "Float2"],
           [offset |-> 8,  shader_location |-> 1, format |-> "Float4"],
           [offset |-> 16, shader_location |-> 2, format |-> "Float2"],
           [offset |-> 32, shader_location |-> 3, format |-> "Uint"] >>]

\* InterfaceVertex::desc()
desc ==
    [stride |-> SizeOf(InterfaceVertex),
     step_mode |-> "Vertex",
     attributes |->
        << [offset |-> 0,  shader_location |-> 0, format |-> "Float2"],
           [offset |-> 8,  shader_location |-> 1, format |-> "Float4"],
           [offset |-> 24, shader_location |-> 2, format |-> "Float2"],
           [offset |-> 32, shader_location |-> 3, format |-> "Uint"] >>]

\* bytemuck::cast_slice: the byte length of a slice of records / of u32.
VertexBytes(vs) == Len(vs) * SizeOf(InterfaceVertex)
IndexBytes(is) == Len(is) * ElemSize("u32")

\* ------------------------------------------- camera and uniforms (131-162)
\* Rationals <<numerator, denominator>> in lowest terms, denominator > 0.
Abs(n) == IF n < 0 THEN -n ELSE n
RECURSIVE Gcd(_, _)
Gcd(a, b) == IF b = 0 THEN a ELSE Gcd(b, a % b)
Rat(n, d) ==
    LET g == Gcd(Abs(n), Abs(d))
        s == IF d < 0 THEN -1 ELSE 1
    IN << (s * n) \div g, (s * d) \div g >>

\* na::Orthographic3::new(left, right, bottom, top, znear, zfar)
Orthographic3(l, r, b, t, n, f) ==
    [left |-> l, right |-> r, bottom |-> b, top |-> t, znear |-> n, zfar |-> f]

\* Orthographic3::as_matrix: the homogeneous projection matrix, by rows.
AsMatrix(c) ==
    LET z == Rat(0, 1)
    IN << << Rat(2, c.right - c.left), z, z,
             Rat(-(c.right + c.left), c.right - c.left) >>,
          << z, Rat(2, c.top - c.bottom), z,
             Rat(-(c.top + c.bottom), c.top - c.bottom) >>,
          << z, z, Rat(-2, c.zfar - c.znear),
             Rat(-(c.zfar + c.znear), c.zfar - c.znear) >>,
          << z, z, z, Rat(1, 1) >> >>

\* na::Matrix4::identity()
Identity4 ==
    [i \in 1..4 |-> [j \in 1..4 |-> IF i = j THEN Rat(1, 1) ELSE Rat(0, 1)]]

\* VertexUniforms { camera, transform } as uploaded by create_buffer_with_data
VertexUniforms(c) == [camera |-> AsMatrix(c), transform |-> Identity4]

\* The camera InterfacePass::new builds.
NewCamera == Orthographic3(0, 1, 0, 1, 10, 100)

\* ------------------------------------------------ seeded geometry (296-323)
Vtx(x, y) ==
    [pos |-> <<x, y>>, color |-> <<1, 1, 1, 1>>, uv |-> <<0, 0>>, index |-> 0]
SeedVertices == << Vtx(0, 0), Vtx(1, 0), Vtx(1, 1), Vtx(0, 1) >>
SeedIndices == << 0, 1, 3, 1, 2, 3 >>

\* ------------------------------------------------------- Context (19-72)
\* device.create_swap_chain(&surface, &sc_desc): the swapchain is built from
\* the descriptor as it is at the call.
CreateSwapChain(d) ==
    [width |-> d.width, height |-> d.height, format |-> d.format,
     present_mode |-> d.present_mode]

\* The descriptor Context::new builds from window.inner_size().
NewSwapChainDescriptor(s) ==
    [usage |-> "OUTPUT_ATTACHMENT", format |-> "Bgra8UnormSrgb",
     width |-> s.width, height |-> s.height, present_mode |-> "Fifo"]

\* A variant of Context::resize that rebuilds the swapchain before it
\* updates the descriptor.
Resize_stale_swap_chain(new_size) ==
    /\ size' = new_size
    /\ swap_chain' = CreateSwapChain(sc_desc)
    /\ sc_desc' = [sc_desc EXCEPT !.width = new_size.width,
                                  !.height = new_size.height]
    /\ lastResize' = <<new_size>>
    /\ UNCHANGED passVars

\* A variant of Context::resize that also refits the camera to the window.
Resize_refit_camera(new_size) ==
    /\ size' = new_size
    /\ sc_desc' = [sc_desc EXCEPT !.width = new_size.width,
                                  !.height = new_size.height]
    /\ swap_chain' = CreateSwapChain(sc_desc')
    /\ lastResize' = <<new_size>>
    /\ camera' = Orthographic3(0, new_size.width + 1, 0, new_size.height + 1,
                               10, 100)
    /\ uniforms' = VertexUniforms(camera')
    /\ UNCHANGED <<vertices, indices>>

\* Context::resize(new_size)
Resize(new_size) ==
    /\ size' = new_size
    /\ sc_desc' = [sc_desc EXCEPT !.width = new_size.width,
                                  !.height = new_size.height]
    /\ swap_chain' = CreateSwapChain(sc_desc')
    /\ lastResize' = <<new_size>>
    /\ UNCHANGED passVars

\* ------------------------------------------------ InterfacePass (141-286)
\* A variant of InterfacePass::update that appends a vertex each frame.
Update_push_vertex ==
    /\ vertices' = (IF Len(vertices) < 6 THEN Append(vertices, Vtx(0, 0))
                    ELSE vertices)
    /\ UNCHANGED <<camera, uniforms, indices>>

\* InterfacePass::update(&mut self): an empty body.
Update == UNCHANGED passVars

\* A variant of the recorded pass that issues the draw twice.
RecordedPass_two_draws ==
    << [op |-> "begin_render_pass", load_op |-> "Load", store_op |-> "Store"],
       [op |-> "set_pipeline"],
       [op |-> "set_bind_group", index |-> 0],
       [op |-> "set_vertex_buffer", slot |-> 0],
       [op |-> "set_index_buffer"],
       [op |-> "draw_indexed", indices |-> <<0, Len(indices)>>,
        base_vertex |-> 0, instances |-> <<0, 1>>],
       [op |-> "draw_indexed", indices |-> <<0, Len(indices)>>,
        base_vertex |-> 0, instances |-> <<0, 1>>],
       [op |-> "end_render_pass"] >>

\* The commands InterfacePass::render records between begin_render_pass and
\* the end of the pass's scope (260-282); ranges are <<start, end>>.
RecordedPass ==
    << [op |-> "begin_render_pass", load_op |-> "Load", store_op |-> "Store"],
       [op |-> "set_pipeline"],
       [op |-> "set_bind_group", index |-> 0],
       [op |-> "set_vertex_buffer", slot |-> 0],
       [op |-> "set_index_buffer"],
       [op |-> "draw_indexed", indices |-> <<0, Len(indices)>>,
        base_vertex |-> 0, instances |-> <<0, 1>>],
       [op |-> "end_render_pass"] >>

\* The commands of a command buffer with a given op.
Ops(cb, op) == {i \in 1..Len(cb) : cb[i].op = op}

\* A variant of the acquisition failure that skips the frame and returns.
TimeoutGettingTexture_skip_frame ==
    UNCHANGED <<frames_acquired, passes_begun, draw_calls, queue, panicked>>

\* get_next_texture() timed out: expect("Timeout getting texture") panics
\* before the encoder is created.
TimeoutGettingTexture ==
    /\ panicked' = TRUE
    /\ UNCHANGED <<frames_acquired, passes_begun, draw_calls, queue>>

\* InterfacePass::render(&self, ctx)
Render ==
    /\ render_calls' = render_calls + 1
    /\ buffers_created' = buffers_created + 2
    /\ vertex_buffer_len' = VertexBytes(vertices)
    /\ index_buffer_len' = IndexBytes(indices)
    /\ \/ TimeoutGettingTexture
       \/ /\ frames_acquired' = frames_acquired + 1
          /\ passes_begun' =
                passes_begun + Cardinality(Ops(RecordedPass, "begin_render_pass"))
          /\ draw_calls' =
                draw_calls + Cardinality(Ops(RecordedPass, "draw_indexed"))
          /\ queue' = Append(queue, << RecordedPass >>)
          /\ UNCHANGED panicked

\* -------------------------------------------------- Application (288-339)
\* Application::update
AppUpdate == Update

\* Application::render
AppRender == Render

\* A variant of Application::input that consumes keyboard events.
input_consumes_keys(event) == event.kind # "KeyboardInput"

\* Application::input(&mut self, event) -> bool
input(event) == TRUE

\* ------------------------------------- the event_loop.run closure (353-396)
\* An assignment through the closure's control_flow reference. The window
\* system keeps Exit once it is set: a later handler writes to a reference
\* whose value the loop no longer reads.
SetControlFlow(v) ==
    /\ handler_cf' = v
    /\ control_flow' = (IF control_flow = "Exit" THEN "Exit" ELSE v)

\* The arms that leave the signal at the Poll assigned on entry (354) and do
\* nothing else: `_ => {}` at 370, 381 and 394, an event of another window,
\* and an event app.input consumed.
OnIgnored ==
    /\ SetControlFlow("Poll")
    /\ UNCHANGED <<ctxVars, passVars, gpuVars, redraw_requested, lastResize,
                   workAfterExit>>

\* A variant of the CloseRequested arm that forgets to ask for Exit.
OnCloseRequested_no_exit == OnIgnored

\* WindowEvent::CloseRequested => *control_flow = ControlFlow::Exit
OnCloseRequested ==
    /\ SetControlFlow("Exit")
    /\ UNCHANGED <<ctxVars, passVars, gpuVars, redraw_requested, lastResize,
                   workAfterExit>>

\* A variant of the KeyboardInput arm that matches the key's release.
OnKeyboardInput_on_release(we) ==
    /\ SetControlFlow(IF we.state = "Released" /\ we.key = "Escape"
                      THEN "Exit" ELSE "Poll")
    /\ UNCHANGED <<ctxVars, passVars, gpuVars, redraw_requested, lastResize,
                   workAfterExit>>

\* WindowEvent::KeyboardInput { input, .. }: Exit on Pressed + Escape
OnKeyboardInput(we) ==
    /\ SetControlFlow(IF we.state = "Pressed" /\ we.key = "Escape"
                      THEN "Exit" ELSE "Poll")
    /\ UNCHANGED <<ctxVars, passVars, gpuVars, redraw_requested, lastResize,
                   workAfterExit>>

\* WindowEvent::Resized(physical_size) => block_on(ctx.resize(*physical_size))
OnResized(new_size) ==
    /\ SetControlFlow("Poll")
    /\ Resize(new_size)
    /\ workAfterExit' = (workAfterExit \/ exitSeen)
    /\ UNCHANGED <<gpuVars, redraw_requested>>

\* A variant of the ScaleFactorChanged arm that drops the event.
OnScaleFactorChanged_dropped(new_inner_size) == OnIgnored

\* WindowEvent::ScaleFactorChanged { new_inner_size, .. }
\*     => block_on(ctx.resize(**new_inner_size))
OnScaleFactorChanged(new_inner_size) ==
    /\ SetControlFlow("Poll")
    /\ Resize(new_inner_size)
    /\ workAfterExit' = (workAfterExit \/ exitSeen)
    /\ UNCHANGED <<gpuVars, redraw_requested>>

\* Event::RedrawRequested(_) => app.update(&mut ctx); app.render(&mut ctx)
\* The window system's pending redraw request is used up by the delivery.
OnRedrawRequested ==
    /\ SetControlFlow("Poll")
    /\ AppUpdate
    /\ AppRender
    /\ redraw_requested' = FALSE
    /\ workAfterExit' = (workAfterExit \/ exitSeen)
    /\ UNCHANGED <<ctxVars, lastResize>>

\* Event::MainEventsCleared => window.request_redraw()
OnMainEventsCleared ==
    /\ SetControlFlow("Poll")
    /\ redraw_requested' = TRUE
    /\ UNCHANGED <<ctxVars, passVars, gpuVars, lastResize, workAfterExit>>

\* The closure passed to event_loop.run, called with one event.
Handler(event) ==
    IF event.type = "WindowEvent" /\ event.window_id = WindowId
    THEN /\ input_result' = <<input(event.event)>>
         /\ dispatched' = input(event.event)
         /\ IF input(event.event)
            THEN CASE event.event.kind = "CloseRequested" -> OnCloseRequested
                   [] event.event.kind = "KeyboardInput" ->
                          OnKeyboardInput(event.event)
                   [] event.event.kind = "Resized" ->
                          OnResized(event.event.size)
                   [] event.event.kind = "ScaleFactorChanged" ->
                          OnScaleFactorChanged(event.event.size)
                   [] OTHER -> OnIgnored
            ELSE OnIgnored
    ELSE /\ input_result' = <<>>
         /\ dispatched' = FALSE
         /\ CASE event.type = "RedrawRequested" -> OnRedrawRequested
              [] event.type = "MainEventsCleared" -> OnMainEventsCleared
              [] OTHER -> OnIgnored

\* ------------------------------------------------------ the window system
\* The events that ask the loop to terminate.
IsTerminating(event) ==
    /\ event.type = "WindowEvent"
    /\ event.window_id = WindowId
    /\ \/ event.event.kind = "CloseRequested"
       \/ /\ event.event.kind = "KeyboardInput"
          /\ event.event.state = "Pressed"
          /\ event.event.key = "Escape"

\* The events that carry a new size of the application's window.
CarriesSize(event) ==
    /\ event.type = "WindowEvent"
    /\ event.window_id = WindowId
    /\ event.event.kind \in {"Resized", "ScaleFactorChanged"}

\* One delivery: the closure runs on the event, and the history records it.
Deliver(event) ==
    /\ ~panicked
    /\ Handler(event)
    /\ lastEvent' = event
    /\ lastEventSize' = (IF CarriesSize(event) THEN <<event.event.size>>
                         ELSE lastEventSize)
    /\ exitSeen' = (exitSeen \/ IsTerminating(event))
    /\ UNCHANGED initial_size

DispatchWindowEvent ==
    \E wid \in WindowIds, we \in WindowEvents :
        /\ phase = "events"
        /\ Deliver(WindowEv(wid, we))
        /\ UNCHANGED <<phase, iterAfterExit>>

DispatchMainEventsCleared ==
    /\ phase = "events"
    /\ Deliver(PlainEv("MainEventsCleared"))
    /\ phase' = "redraw"
    /\ UNCHANGED iterAfterExit

DispatchRedrawRequested ==
    /\ phase = "redraw"
    /\ redraw_requested
    /\ render_calls < MaxFrames
    /\ Deliver(PlainEv("RedrawRequested"))
    /\ UNCHANGED <<phase, iterAfterExit>>

\* The end of an iteration: the loop reads the control signal.
DispatchRedrawEventsCleared ==
    /\ phase = "redraw"
    /\ Deliver(PlainEv("RedrawEventsCleared"))
    /\ phase' = (IF control_flow' = "Exit" THEN "destroy" ELSE "events")
    /\ iterAfterExit' = (iterAfterExit \/ (exitSeen /\ phase' = "events"))

DispatchLoopDestroyed ==
    /\ phase = "destroy"
    /\ Deliver(PlainEv("LoopDestroyed"))
    /\ phase' = "done"
    /\ UNCHANGED iterAfterExit

\* main(): Context::new(&window), Application::new(&mut ctx), then the loop.
Init ==
    /\ initial_size \in Sizes
    /\ size = initial_size
    /\ sc_desc = NewSwapChainDescriptor(initial_size)
    /\ swap_chain = CreateSwapChain(sc_desc)
    /\ camera = NewCamera
    /\ uniforms = VertexUniforms(NewCamera)
    /\ vertices = SeedVertices
    /\ indices = SeedIndices
    /\ render_calls = 0
    /\ buffers_created = 1
    /\ vertex_buffer_len = 0
    /\ index_buffer_len = 0
    /\ frames_acquired = 0
    /\ passes_begun = 0
    /\ draw_calls = 0
    /\ queue = << >>
    /\ panicked = FALSE
    /\ control_flow = "Poll"
    /\ handler_cf = "Poll"
    /\ phase = "events"
    /\ redraw_requested = FALSE
    /\ lastResize = << >>
    /\ lastEventSize = << >>
    /\ lastEvent = NoEvent
    /\ input_result = << >>
    /\ dispatched = FALSE
    /\ exitSeen = FALSE
    /\ workAfterExit = FALSE
    /\ iterAfterExit = FALSE

Next ==
    \/ DispatchWindowEvent
    \/ DispatchMainEventsCleared
    \/ DispatchRedrawRequested
    \/ DispatchRedrawEventsCleared
    \/ DispatchLoopDestroyed

Spec == Init /\ [][Next]_vars

\* ============================================================== properties
\* The size of the most recent Context::resize call, or the window's size at
\* construction when resize was never called.
CurrentRequest == IF lastResize = << >> THEN initial_size ELSE lastResize[1]

\* The number of render calls that returned.
SuccessfulRenders == IF panicked THEN render_calls - 1 ELSE render_calls

IsAppWindowEvent(event) ==
    event.type = "WindowEvent" /\ event.window_id = WindowId

\* C1: in every reachable state the stored size, the swapchain descriptor's
\* width and height and the live swapchain's width and height are those of
\* the most recent resize call (of the initial window size before any), and
\* the live swapchain is the one built from the descriptor as it now stands.
C1_ResizeTracksRequest ==
    /\ size = CurrentRequest
    /\ sc_desc.width = CurrentRequest.width
    /\ sc_desc.height = CurrentRequest.height
    /\ swap_chain.width = CurrentRequest.width
    /\ swap_chain.height = CurrentRequest.height
    /\ swap_chain = CreateSwapChain(sc_desc)

\* A resize to a non-square size other than the initial one has been made.
C1_Witness ==
    /\ lastResize # << >>
    /\ lastResize[1] # initial_size
    /\ lastResize[1].width # lastResize[1].height
    /\ sc_desc.width = lastResize[1].width

\* C2: once a Resized or ScaleFactorChanged event of the application's
\* window has been delivered, Context::resize was last called with the size
\* of the most recent such event and the descriptor has that size.
C2_DescriptorNeverStale ==
    lastEventSize # << >> =>
        /\ lastResize = lastEventSize
        /\ sc_desc.width = lastEventSize[1].width
        /\ sc_desc.height = lastEventSize[1].height

\* A ScaleFactorChanged event with a new size was the last event delivered.
C2_Witness ==
    /\ IsAppWindowEvent(lastEvent)
    /\ lastEvent.event.kind = "ScaleFactorChanged"
    /\ lastEvent.event.size # initial_size
    /\ sc_desc.width = lastEvent.event.size.width
    /\ sc_desc.height = lastEvent.event.size.height

\* C3: when the handler of a close request of the application's window, or
\* of a Pressed + Escape keyboard input, has returned, the control signal is
\* Exit: both the value the handler left and the one the loop reads.
C3_TerminatingEventSetsExit ==
    IsTerminating(lastEvent) => handler_cf = "Exit" /\ control_flow = "Exit"

\* Escape was pressed after a resize had been handled.
C3_Witness ==
    /\ IsTerminating(lastEvent)
    /\ lastEvent.event.kind = "KeyboardInput"
    /\ lastResize # << >>
    /\ control_flow = "Exit"

\* C4: after n render calls that returned there are n draw calls and n
\* queue submissions; every submission is one command buffer holding one
\* render pass and one indexed draw of indices 0..indices.length (6), base
\* vertex 0, instances 0..1.
C4_OneDrawOneSubmitPerFrame ==
    /\ draw_calls = SuccessfulRenders
    /\ Len(queue) = SuccessfulRenders
    /\ \A k \in 1..Len(queue) :
          /\ Len(queue[k]) = 1
          /\ Cardinality(Ops(queue[k][1], "begin_render_pass")) = 1
          /\ Cardinality(Ops(queue[k][1], "draw_indexed")) = 1
          /\ \A i \in Ops(queue[k][1], "draw_indexed") :
                /\ queue[k][1][i].indices = <<0, Len(indices)>>
                /\ queue[k][1][i].indices = <<0, 6>>
                /\ queue[k][1][i].instances = <<0, 1>>

\* Two frames have been rendered.
C4_Witness == Len(queue) = 2 /\ draw_calls = 2 /\ render_calls = 2

\* C5: the geometry is always the seeded quad: 4 vertices at (0,0), (1,0),
\* (1,1), (0,1), white, zero UV, tag 0; indices (0,1,3,1,2,3); the index
\* count is a multiple of 3 and every index is below the vertex count.
C5_GeometryIsSeededQuad ==
    /\ Len(vertices) = 4
    /\ <<vertices[1].pos, vertices[2].pos, vertices[3].pos, vertices[4].pos>>
          = << <<0, 0>>, <<1, 0>>, <<1, 1>>, <<0, 1>> >>
    /\ \A k \in 1..Len(vertices) :
          /\ vertices[k].color = <<1, 1, 1, 1>>
          /\ vertices[k].uv = <<0, 0>>
          /\ vertices[k].index = 0
    /\ indices = <<0, 1, 3, 1, 2, 3>>
    /\ Len(indices) % 3 = 0
    /\ \A k \in 1..Len(indices) : indices[k] >= 0 /\ indices[k] < Len(vertices)

\* Update, render, input and resize have all been called.
C5_Witness ==
    /\ render_calls >= 2
    /\ lastResize # << >>
    /\ input_result = <<TRUE>>
    /\ Len(vertices) = 4

\* C6: a render call whose image acquisition timed out panicked: no pass was
\* begun, no draw recorded and nothing submitted for that frame, and from a
\* panicked state no event is handled.
C6_AcquisitionTimeoutIsFatal ==
    /\ [](render_calls > frames_acquired =>
             /\ panicked
             /\ render_calls = frames_acquired + 1
             /\ passes_begun = frames_acquired
             /\ draw_calls = frames_acquired
             /\ Len(queue) = frames_acquired)
    /\ [][~panicked]_vars

\* The second frame's acquisition timed out.
C6_Witness ==
    /\ panicked
    /\ render_calls = 2
    /\ frames_acquired = 1
    /\ Len(queue) = 1

\* C7: the camera is the orthographic projection with bounds 0, 1, 0, 1, 10,
\* 100 and the uniform buffer holds its matrix and the identity transform,
\* in every state.
C7_CameraIsConstant ==
    /\ camera = [left |-> 0, right |-> 1, bottom |-> 0, top |-> 1,
                 znear |-> 10, zfar |-> 100]
    /\ uniforms.camera =
          << << <<2, 1>>, <<0, 1>>, <<0, 1>>, <<-1, 1>> >>,
             << <<0, 1>>, <<2, 1>>, <<0, 1>>, <<-1, 1>> >>,
             << <<0, 1>>, <<0, 1>>, <<-1, 45>>, <<-11, 9>> >>,
             << <<0, 1>>, <<0, 1>>, <<0, 1>>, <<1, 1>> >> >>
    /\ uniforms.camera = AsMatrix(camera)
    /\ \A i, j \in 1..4 :
          uniforms.transform[i][j] = (IF i = j THEN <<1, 1>> ELSE <<0, 1>>)

\* The window was resized to a size with width 1 and a frame was rendered.
C7_Witness ==
    /\ lastResize # << >>
    /\ lastResize[1] # initial_size
    /\ size.width = 1
    /\ render_calls >= 1
    /\ input_result = <<TRUE>>

\* C8: input returns true for every window event, and every event of the
\* application's window the handler was given reached the inner dispatch.
C8_InputNeverConsumes ==
    /\ \A we \in WindowEvents : input(we) = TRUE
    /\ IsAppWindowEvent(lastEvent) => input_result = <<TRUE>> /\ dispatched

\* A keyboard event that is not Escape was dispatched after a frame.
C8_Witness ==
    /\ IsAppWindowEvent(lastEvent)
    /\ lastEvent.event.kind = "KeyboardInput"
    /\ lastEvent.event.key = "A"
    /\ render_calls >= 1
    /\ dispatched

\* C9: the stride is 36 bytes; the declared attribute offsets 0, 8, 24, 32
\* are the offsets of the record's fields in declaration order, each
\* attribute's format is as wide as its field, the last field ends at the
\* stride, and a vertex buffer of n vertices is n * 36 bytes long.
C9_VertexLayout ==
    /\ desc.stride = 36
    /\ Len(desc.attributes) = Len(InterfaceVertex)
    /\ <<desc.attributes[1].offset, desc.attributes[2].offset,
         desc.attributes[3].offset, desc.attributes[4].offset>> = <<0, 8, 24, 32>>
    /\ \A i \in 1..Len(InterfaceVertex) :
          /\ desc.attributes[i].offset = FieldOffset(InterfaceVertex, i)
          /\ VertexFormatSize(desc.attributes[i].format)
                = FieldSize(InterfaceVertex[i])
          /\ desc.attributes[i].offset + FieldSize(InterfaceVertex[i])
                <= desc.stride
    /\ <<FieldSize(InterfaceVertex[1]), FieldSize(InterfaceVertex[2]),
         FieldSize(InterfaceVertex[3]), FieldSize(InterfaceVertex[4])>>
          = <<8, 16, 8, 4>>
    /\ desc.attributes[4].offset + FieldSize(InterfaceVertex[4]) = desc.stride
    /\ render_calls > 0 => vertex_buffer_len = Len(vertices) * 36

\* A vertex buffer of the four seeded vertices has been created.
C9_Witness == render_calls > 0 /\ vertex_buffer_len = 144 /\ index_buffer_len = 24

\* C10 as stated: after the terminating event the loop's signal stays Exit,
\* the loop begins no further iteration, and no update, render or resize is
\* performed.
C10_NoWorkAfterExit ==
    exitSeen => control_flow = "Exit" /\ ~iterAfterExit /\ ~workAfterExit

\* C10 (amended): after the terminating event the loop's signal stays Exit
\* through every later handler invocation and the loop begins no further
\* iteration; the events delivered in the rest of the iteration that held
\* the terminating event are still handled.
C10_ExitIsSticky ==
    exitSeen => control_flow = "Exit" /\ ~iterAfterExit

\* The loop has stopped after a terminating event; a later handler had
\* assigned Poll, and a resize or a frame came after the terminating event.
C10_Witness ==
    /\ exitSeen
    /\ phase = "done"
    /\ handler_cf = "Poll"
    /\ workAfterExit

====
